---------------------------- MODULE Spec2Model ----------------------------
(***************************************************************************)
(* A model of pre_commit/languages/sbt.py: the sbt hook runner that talks  *)
(* to a running sbt server over its unix socket (LSP-style framing,        *)
(* JSON-RPC bodies) and falls back to the sbt command line.                *)
(*                                                                         *)
(* Text is modelled as sequences of one-character strings, so lengths,     *)
(* line ends, colons and quotes are those of the wire.  All text in the    *)
(* model is ASCII: json.dumps escapes everything else, so a character is   *)
(* a byte.                                                                 *)
(***************************************************************************)
EXTENDS Integers, Sequences, FiniteSets, TLC

(***************************************************************************)
(* Bounds of the model.                                                    *)
(***************************************************************************)
\* Well-framed messages the server sends in one exchange, at most.
MaxMsgs == 2
\* Header lines _read_headers keeps; the list in the code is unbounded and
\* longer than any header block of the model only when the loop cannot end.
MaxHeaders == 3

(***************************************************************************)
(* Program constants.                                                      *)
(***************************************************************************)
_MIN_ID == 1
_MAX_ID == 1000000
_LSP_TIMEOUT == 45
_CONTENT_LENGTH == <<"C", "o", "n", "t", "e", "n", "t", "-", "L", "e", "n", "g", "t", "h">>
_ACTIVE_JSON_PATH == "project/target/active.json"

CRLF == <<"\r", "\n">>
LF == <<"\n">>
Digits == <<"0", "1", "2", "3", "4", "5", "6", "7", "8", "9">>
DigitSet == {Digits[i] : i \in 1..10}
\* What str.strip() removes, and what json.loads skips between tokens.
Whitespace == {" ", "\t", "\r", "\n"}

(***************************************************************************)
(* Text helpers: the str and int operations the code uses.                 *)
(***************************************************************************)
\* Body applied to the value of an expression, computed once: what
\* LET v == value IN Body(v) means.
Bind(value, Body(_)) == CHOOSE r \in {Body(v) : v \in {value}} : TRUE

\* The first index from i on whose character is in chars, or is not in
\* chars, or 0 when there is none.
FirstIn(s, i, chars) ==
    Bind({j \in i..Len(s) : s[j] \in chars}, LAMBDA at :
    IF at = {} THEN 0 ELSE CHOOSE j \in at : \A k \in at : j <= k)

FirstNotIn(s, i, chars) ==
    Bind({j \in i..Len(s) : s[j] \notin chars}, LAMBDA at :
    IF at = {} THEN 0 ELSE CHOOSE j \in at : \A k \in at : j <= k)

LastNotIn(s, chars) ==
    Bind({j \in 1..Len(s) : s[j] \notin chars}, LAMBDA at :
    IF at = {} THEN 0 ELSE CHOOSE j \in at : \A k \in at : k <= j)

\* The first index of character c in s, 0 when there is none.
IndexOf(s, c) == FirstIn(s, 1, {c})

\* s.split(c): the parts of s between the occurrences of c.
RECURSIVE Split(_, _)
Split(s, c) ==
    Bind(IndexOf(s, c), LAMBDA i :
    IF i = 0 THEN <<s>>
    ELSE <<SubSeq(s, 1, i - 1)>> \o Split(SubSeq(s, i + 1, Len(s)), c))

LStrip(s) ==
    Bind(FirstNotIn(s, 1, Whitespace), LAMBDA j :
    IF j = 0 THEN <<>> ELSE SubSeq(s, j, Len(s)))

RStrip(s) == SubSeq(s, 1, LastNotIn(s, Whitespace))

\* s.strip()
Strip(s) == RStrip(LStrip(s))

DigitVal(c) == (CHOOSE i \in 1..10 : Digits[i] = c) - 1

IsDigits(s) == s # <<>> /\ \A i \in 1..Len(s) : s[i] \in DigitSet

RECURSIVE DigitsVal(_)
DigitsVal(s) ==
    IF s = <<>> THEN 0
    ELSE 10 * DigitsVal(SubSeq(s, 1, Len(s) - 1)) + DigitVal(s[Len(s)])

\* int(s) of an already stripped s: an optional sign and decimal digits;
\* anything else raises ValueError.
IsIntLiteral(s) ==
    \/ IsDigits(s)
    \/ s # <<>> /\ Head(s) \in {"-", "+"} /\ IsDigits(Tail(s))

IntOf(s) ==
    IF Head(s) = "-" THEN 0 - DigitsVal(Tail(s))
    ELSE IF Head(s) = "+" THEN DigitsVal(Tail(s))
    ELSE DigitsVal(s)

\* str(n) / f"{n}": the decimal digits of n.
RECURSIVE NatStr(_)
NatStr(n) ==
    IF n < 10 THEN <<Digits[n + 1]>>
    ELSE NatStr(n \div 10) \o <<Digits[(n % 10) + 1]>>

IntStr(n) == IF n < 0 THEN <<"-">> \o NatStr(0 - n) ELSE NatStr(n)

(***************************************************************************)
(* JSON documents.  A document is an integer, a string or an object; an    *)
(* object is the sequence of its (key, value) pairs in insertion order,    *)
(* as a Python dict keeps them.                                            *)
(***************************************************************************)
JInt(n) == [t |-> "int", v |-> n]
JStr(s) == [t |-> "str", v |-> s]
JObj(pairs) == [t |-> "obj", v |-> pairs]

IsObj(d) == d.t = "obj"

\* key in d
HasKey(d, k) == \E i \in 1..Len(d.v) : d.v[i][1] = k

\* d[key], for a key that is in d
GetKey(d, k) == d.v[CHOOSE i \in 1..Len(d.v) : d.v[i][1] = k][2]

\* d[key] = val on the pairs of a dict: a key already there keeps its place.
SetKey(pairs, k, val) ==
    IF \E i \in 1..Len(pairs) : pairs[i][1] = k
    THEN [i \in 1..Len(pairs) |->
             IF pairs[i][1] = k THEN <<k, val>> ELSE pairs[i]]
    ELSE Append(pairs, <<k, val>>)

\* json.dumps of a string's characters: quotes, backslashes and control
\* characters are escaped.
EscapeNothing(c) == <<c>>
EscapeChar(c) ==
    CASE c = "\"" -> <<"\\", "\"">>
      [] c = "\\" -> <<"\\", "\\">>
      [] c = "\n" -> <<"\\", "n">>
      [] c = "\r" -> <<"\\", "r">>
      [] c = "\t" -> <<"\\", "t">>
      [] OTHER -> <<c>>

\* The characters before the first one that is escaped are copied as they
\* are.
NeedsEscape(s) == {c \in {s[j] : j \in 1..Len(s)} : EscapeChar(c) # <<c>>}

RECURSIVE Escape(_)
Escape(s) ==
    Bind(FirstIn(s, 1, NeedsEscape(s)), LAMBDA j :
    IF j = 0 THEN s
    ELSE SubSeq(s, 1, j - 1) \o EscapeChar(s[j])
         \o Escape(SubSeq(s, j + 1, Len(s))))

DumpsStr(s) == <<"\"">> \o Escape(s) \o <<"\"">>

\* json.dumps(doc) with the default separators ", " and ": ".
RECURSIVE Dumps(_)
RECURSIVE DumpsPairs(_)
DumpsPairs(pairs) ==
    IF pairs = <<>> THEN <<>>
    ELSE DumpsStr(Head(pairs)[1]) \o <<":", " ">> \o Dumps(Head(pairs)[2])
         \o (IF Len(pairs) > 1 THEN <<",", " ">> ELSE <<>>)
         \o DumpsPairs(Tail(pairs))

Dumps(d) ==
    CASE d.t = "int" -> IntStr(d.v)
      [] d.t = "str" -> DumpsStr(d.v)
      [] d.t = "obj" -> <<"{">> \o DumpsPairs(d.v) \o <<"}">>

\* json.loads: a recursive-descent parser over position i of text s.  Each
\* parser returns [ok, val, pos]: pos is the index after what it read.
ParseFail == [ok |-> FALSE, val |-> JInt(0), pos |-> 0]
ParseOk(val, pos) == [ok |-> TRUE, val |-> val, pos |-> pos]

SkipWs(s, i) ==
    Bind(FirstNotIn(s, i, Whitespace), LAMBDA j :
    IF j = 0 THEN IF i > Len(s) THEN i ELSE Len(s) + 1 ELSE j)

Unescaped(c) ==
    CASE c = "n" -> "\n"
      [] c = "r" -> "\r"
      [] c = "t" -> "\t"
      [] OTHER -> c

\* The characters of a string literal, from the index after its opening
\* quote: the decoder takes the run of plain characters up to the next
\* quote, backslash or control character, and goes on after an escape.
StringStops == {"\"", "\\", "\n", "\r", "\t"}

RECURSIVE ParseChars(_, _, _)
ParseChars(s, i, acc) ==
    Bind(FirstIn(s, i, StringStops), LAMBDA j :
    IF j = 0 THEN ParseFail
    ELSE Bind(acc \o SubSeq(s, i, j - 1), LAMBDA chunk :
         IF s[j] = "\"" THEN ParseOk(JStr(chunk), j + 1)
         ELSE IF s[j] = "\\"
              THEN IF j + 1 <= Len(s) /\ s[j + 1] \in {"\"", "\\", "/", "n", "r", "t"}
                   THEN ParseChars(s, j + 2, Append(chunk, Unescaped(s[j + 1])))
                   ELSE ParseFail
         ELSE ParseFail))

DigitsEnd(s, i) ==
    Bind(FirstNotIn(s, i, DigitSet), LAMBDA j :
    IF j = 0 THEN IF i > Len(s) THEN i ELSE Len(s) + 1 ELSE j)

ParseNumber(s, i) ==
    LET from == IF s[i] = "-" THEN i + 1 ELSE i
        to == DigitsEnd(s, from)
    IN  IF to = from THEN ParseFail
        ELSE ParseOk(JInt(IntOf(SubSeq(s, i, to - 1))), to)

RECURSIVE ParseValue(_, _)
RECURSIVE ParsePairs(_, _, _)
\* One "key": value pair, from the index of the key's opening quote; pos is
\* the index of what follows the value and its whitespace.
PairFail == [ok |-> FALSE, key |-> <<>>, val |-> JInt(0), pos |-> 0]

ParsePair(s, i) ==
    IF i > Len(s) \/ s[i] # "\"" THEN PairFail
    ELSE Bind(ParseChars(s, i + 1, <<>>), LAMBDA key :
         IF ~key.ok THEN PairFail
         ELSE Bind(SkipWs(s, key.pos), LAMBDA colon :
         IF colon > Len(s) \/ s[colon] # ":" THEN PairFail
         ELSE Bind(ParseValue(s, colon + 1), LAMBDA val :
         IF ~val.ok THEN PairFail
         ELSE [ok |-> TRUE, key |-> key.val.v, val |-> val.val,
               pos |-> SkipWs(s, val.pos)])))

\* The pairs of an object, from the index of a key's opening quote.
ParsePairs(s, i, acc) ==
    Bind(ParsePair(s, i), LAMBDA p :
    IF ~p.ok \/ p.pos > Len(s) THEN ParseFail
    ELSE IF s[p.pos] = "}"
         THEN ParseOk(JObj(SetKey(acc, p.key, p.val)), p.pos + 1)
    ELSE IF s[p.pos] = ","
         THEN ParsePairs(s, SkipWs(s, p.pos + 1), SetKey(acc, p.key, p.val))
    ELSE ParseFail)

ParseValue(s, i0) ==
    Bind(SkipWs(s, i0), LAMBDA i :
    IF i > Len(s) THEN ParseFail
    ELSE IF s[i] = "{"
         THEN Bind(SkipWs(s, i + 1), LAMBDA j :
              IF j <= Len(s) /\ s[j] = "}" THEN ParseOk(JObj(<<>>), j + 1)
              ELSE ParsePairs(s, j, <<>>))
    ELSE IF s[i] = "\"" THEN ParseChars(s, i + 1, <<>>)
    ELSE IF s[i] = "-" \/ s[i] \in DigitSet THEN ParseNumber(s, i)
    ELSE ParseFail)

\* json.loads(s): one document, with nothing but whitespace after it;
\* [ok |-> FALSE] stands for JSONDecodeError.
Loads(s) ==
    Bind(ParseValue(s, 1), LAMBDA r :
    IF r.ok /\ SkipWs(s, r.pos) > Len(s) THEN r ELSE ParseFail)

(***************************************************************************)
(* Outbound framing: the request create_exec_request builds.               *)
(***************************************************************************)
ContentTypeHeader == <<"C", "o", "n", "t", "e", "n", "t", "-", "T", "y", "p", "e", ":", " ", "a", "p", "p", "l", "i", "c", "a", "t", "i", "o", "n", "/", "v", "s", "c", "o", "d", "e", "-", "j", "s", "o", "n", "r", "p", "c", ";", " ", "c", "h", "a", "r", "s", "e", "t", "=", "u", "t", "f", "-", "8">>
KeyJsonrpc == <<"j", "s", "o", "n", "r", "p", "c">>
KeyId == <<"i", "d">>
KeyMethod == <<"m", "e", "t", "h", "o", "d">>
KeyParams == <<"p", "a", "r", "a", "m", "s">>
KeyCommandLine == <<"c", "o", "m", "m", "a", "n", "d", "L", "i", "n", "e">>
KeyResult == <<"r", "e", "s", "u", "l", "t">>
KeyExitCode == <<"e", "x", "i", "t", "C", "o", "d", "e">>
KeyError == <<"e", "r", "r", "o", "r">>
KeyCode == <<"c", "o", "d", "e">>
KeyUri == <<"u", "r", "i">>
Version20 == <<"2", ".", "0">>
SbtExec == <<"s", "b", "t", "/", "e", "x", "e", "c">>
ReloadPrefix == <<"r", "e", "l", "o", "a", "d", ";">>

\* The dict _body serializes.
RequestDocOtherId(command_id, sbt_command) ==
    JObj(<< <<KeyJsonrpc, JStr(Version20)>>,
            <<KeyId, JInt(command_id + 1)>>,
            <<KeyMethod, JStr(SbtExec)>>,
            <<KeyParams, JObj(<< <<KeyCommandLine, JStr(sbt_command)>> >>)>> >>)
RequestDoc(command_id, sbt_command) ==
    JObj(<< <<KeyJsonrpc, JStr(Version20)>>,
            <<KeyId, JInt(command_id)>>,
            <<KeyMethod, JStr(SbtExec)>>,
            <<KeyParams, JObj(<< <<KeyCommandLine, JStr(sbt_command)>> >>)>> >>)

_body(command_id, sbt_command) == Dumps(RequestDoc(command_id, sbt_command))

_header(length) ==
    ContentTypeHeader \o CRLF
    \o _CONTENT_LENGTH \o <<":", " ">> \o IntStr(length) \o CRLF

\* The length create_exec_request declares for a body.
DeclaredLengthWithoutCrlf(rpc_body) == Len(rpc_body)
DeclaredLength(rpc_body) == Len(rpc_body) + 2

create_exec_request(command_id, sbt_command) ==
    LET rpc_body == _body(command_id, ReloadPrefix \o sbt_command)
        bsp_header == _header(DeclaredLength(rpc_body))
    IN  bsp_header \o CRLF \o rpc_body \o CRLF

(***************************************************************************)
(* The command string.                                                     *)
(***************************************************************************)
RECURSIVE Join(_, _)
Join(parts, sep) ==
    IF parts = <<>> THEN <<>>
    ELSE IF Len(parts) = 1 THEN Head(parts)
    ELSE Head(parts) \o sep \o Join(Tail(parts), sep)

QuoteIfSpaced(s) == IF IndexOf(s, " ") # 0 THEN <<"\"">> \o s \o <<"\"">> ELSE s
_quote(s) == <<"\"">> \o s \o <<"\"">>

_sbt_command(entry, args, files) ==
    LET args_part == Join(args, <<" ">>)
        files_part == Join([i \in 1..Len(files) |-> _quote(files[i])], <<" ">>)
    IN  entry \o <<" ">> \o args_part \o <<" ">> \o files_part

(***************************************************************************)
(* Inbound framing: header lines and the header block.                     *)
(***************************************************************************)
\* _parse_header: [ok |-> FALSE] stands for ValueError (the unpacking of a
\* split that has not exactly two parts, or int() of a value that is no
\* integer); a value is the integer of Content-Length or the stripped text.
HeaderFail == [ok |-> FALSE, key |-> <<>>, val |-> JInt(0)]

_parse_header(header) ==
    Bind(Split(header, ":"), LAMBDA parts :
    IF Len(parts) # 2 THEN HeaderFail
    ELSE Bind(parts[1], LAMBDA key :
         Bind(Strip(parts[2]), LAMBDA value :
         IF key = _CONTENT_LENGTH
         THEN IF IsIntLiteral(value)
              THEN [ok |-> TRUE, key |-> key, val |-> JInt(IntOf(value))]
              ELSE HeaderFail
         ELSE [ok |-> TRUE, key |-> key, val |-> JStr(value)])))

\* _parse_headers: dict(...) of the parsed lines, in order; a later line with
\* the same key replaces the earlier value.
RECURSIVE ParseHeaderLines(_, _)
ParseHeaderLines(headers, acc) ==
    IF headers = <<>> THEN [ok |-> TRUE, dict |-> JObj(acc)]
    ELSE Bind(_parse_header(Head(headers)), LAMBDA h :
         IF ~h.ok THEN [ok |-> FALSE, dict |-> JObj(<<>>)]
         ELSE Bind(SetKey(acc, h.key, h.val), LAMBDA dict :
              ParseHeaderLines(Tail(headers), dict)))

_parse_headers(headers) == ParseHeaderLines(headers, <<>>)

\* headers[key] of get_next_message: the value, or KeyError.
HeaderLookupOrZero(dict, key) ==
    IF HasKey(dict, key) THEN [exc |-> "", val |-> GetKey(dict, key)]
    ELSE [exc |-> "", val |-> JInt(0)]

HeaderLookup(dict, key) ==
    IF HasKey(dict, key) THEN [exc |-> "", val |-> GetKey(dict, key)]
    ELSE [exc |-> "KeyError", val |-> JInt(0)]

\* StreamReader.readline(): the buffer up to and including the first "\n";
\* at end of input whatever is left, possibly nothing; otherwise the reader
\* has to wait.
LineReadyOnAnyData(buffer, at_end) == buffer # <<>> \/ at_end
LineReady(buffer, at_end) == IndexOf(buffer, "\n") # 0 \/ at_end

LineOf(buffer) ==
    LET i == IndexOf(buffer, "\n")
    IN  IF i = 0 THEN buffer ELSE SubSeq(buffer, 1, i)

AfterLine(buffer) ==
    LET i == IndexOf(buffer, "\n")
    IN  IF i = 0 THEN <<>> ELSE SubSeq(buffer, i + 1, Len(buffer))

(***************************************************************************)
(* Correlation: the completion test and the exit code.                     *)
(***************************************************************************)
\* message.get('id') == task_id
CompletesByOutcome(message, task) ==
    HasKey(message, KeyResult) \/ HasKey(message, KeyError)
is_completion_message(message, task) ==
    HasKey(message, KeyId) /\ GetKey(message, KeyId) = JInt(task)

\* return_code: [exc |-> ""] with the code, or the exception raised.
CodeOf(branch, key) ==
    IF ~IsObj(branch) THEN [exc |-> "TypeError", val |-> JInt(0)]
    ELSE IF ~HasKey(branch, key) THEN [exc |-> "KeyError", val |-> JInt(0)]
    ELSE [exc |-> "", val |-> GetKey(branch, key)]

return_code_default_zero(completion_msg) ==
    IF HasKey(completion_msg, KeyResult)
    THEN CodeOf(GetKey(completion_msg, KeyResult), KeyExitCode)
    ELSE IF HasKey(completion_msg, KeyError)
    THEN CodeOf(GetKey(completion_msg, KeyError), KeyCode)
    ELSE [exc |-> "", val |-> JInt(0)]

return_code(completion_msg) ==
    IF HasKey(completion_msg, KeyResult)
    THEN CodeOf(GetKey(completion_msg, KeyResult), KeyExitCode)
    ELSE IF HasKey(completion_msg, KeyError)
    THEN CodeOf(GetKey(completion_msg, KeyError), KeyCode)
    ELSE [exc |-> "KeyError", val |-> JInt(0)]

(***************************************************************************)
(* The descriptor file and the socket address.                             *)
(***************************************************************************)
\* urlparse(uri).path: what follows the scheme and, after "//", the host.
UrlPath(uri) ==
    LET i == IndexOf(uri, ":")
        rest == SubSeq(uri, i + 1, Len(uri))
    IN  IF i = 0 THEN uri
        ELSE IF Len(rest) >= 2 /\ SubSeq(rest, 1, 2) = <<"/", "/">>
             THEN LET after == SubSeq(rest, 3, Len(rest))
                      j == IndexOf(after, "/")
                  IN  IF j = 0 THEN <<>> ELSE SubSeq(after, j, Len(after))
        ELSE rest

\* connection_details: [exc |-> ""] with the socket path, or the exception.
connection_details(content) ==
    Bind(Loads(content), LAMBDA parsed_json :
    IF ~parsed_json.ok THEN [exc |-> "JSONDecodeError", path |-> <<>>]
    ELSE IF ~IsObj(parsed_json.val) THEN [exc |-> "TypeError", path |-> <<>>]
    ELSE IF ~HasKey(parsed_json.val, KeyUri) THEN [exc |-> "KeyError", path |-> <<>>]
    ELSE [exc |-> "", path |-> UrlPath(GetKey(parsed_json.val, KeyUri).v)])

(***************************************************************************)
(* The inputs of the model: hooks, request ids, and what a server sends.   *)
(***************************************************************************)
NoHook == [entry |-> <<>>, args |-> <<>>, files |-> <<>>]

Hooks ==
    { [entry |-> <<"c">>, args |-> <<>>, files |-> <<>>],
      [entry |-> <<"c">>, args |-> << <<"-", "q">> >>,
       files |-> << <<"a">>, <<"b", " ", "c">> >>],
      [entry |-> <<"t">>, args |-> << <<"-", "o">>, <<"\"", "x", " ", "y", "\"">> >>,
       files |-> << <<"f">> >>] }

\* The ids random.randint(_MIN_ID, _MAX_ID) draws in the model.
TaskIds == {i \in {7, 8} : _MIN_ID <= i /\ i <= _MAX_ID}

\* A framed message: the bytes on the wire and the document they carry.
\* ShortFrame declares the length alone; TestFrame is the tests'
\* _create_sbt_response: Content-Length, Content-Type, blank line, body.
ShortFrame(text, doc) ==
    [bytes |-> _CONTENT_LENGTH \o <<":", " ">> \o IntStr(Len(text)) \o CRLF
               \o CRLF \o text,
     doc |-> doc]

TestFrame(doc) ==
    [bytes |-> _CONTENT_LENGTH \o <<":", " ">> \o IntStr(Len(Dumps(doc))) \o CRLF
               \o ContentTypeHeader \o CRLF
               \o CRLF \o Dumps(doc),
     doc |-> doc]

\* A request as the server would see it, sent back as a message.
EchoFrame(command_id, sbt_command) ==
    [bytes |-> create_exec_request(command_id, sbt_command),
     doc |-> RequestDoc(command_id, ReloadPrefix \o sbt_command)]

ResultDoc(id, code) ==
    JObj(<< <<KeyId, JInt(id)>>,
            <<KeyResult, JObj(<< <<KeyExitCode, JInt(code)>> >>)>> >>)

ErrorDoc(id, code) ==
    JObj(<< <<KeyId, JInt(id)>>,
            <<KeyError, JObj(<< <<KeyCode, JInt(code)>> >>)>> >>)

JunkDoc == JObj(<< <<<<"j", "u", "n", "k">>, JStr(<<"d", "a", "t", "a">>)>> >>)

BareDoc == JObj(<< <<KeyId, JInt(7)>> >>)

\* {"id":7,"error":{"code":1}} as a server that writes no spaces sends it.
CompactError71 == <<"{", "\"", "i", "d", "\"", ":", "7", ",", "\"", "e", "r", "r", "o", "r", "\"", ":", "{", "\"", "c", "o", "d", "e", "\"", ":", "1", "}", "}">>

GoodFrames ==
    { ShortFrame(Dumps(ResultDoc(7, 0)), ResultDoc(7, 0)),
      ShortFrame(CompactError71, ErrorDoc(7, 1)),
      ShortFrame(Dumps(ResultDoc(8, 3)), ResultDoc(8, 3)),
      TestFrame(JunkDoc) }

\* Well-framed, and ending the exchange it completes: an id and nothing else.
EndFrames == { ShortFrame(Dumps(BareDoc), BareDoc) }

\* A notification that carries a result and no id.
NoIdResultDoc == JObj(<< <<KeyResult, JObj(<< <<KeyExitCode, JInt(0)>> >>)>> >>)

NotificationFrames == { ShortFrame(Dumps(NoIdResultDoc), NoIdResultDoc) }

\* A header block that ends without a Content-Length line, and one with a
\* line whose value has a colon of its own.
TimeHeader == <<"X", "-", "T", "i", "m", "e", ":", " ", "1", ":", "2">>

NoLengthFrame(doc) ==
    [bytes |-> ContentTypeHeader \o CRLF \o CRLF \o Dumps(doc),
     doc |-> doc]

ColonFrame(doc) ==
    [bytes |-> _CONTENT_LENGTH \o <<":", " ">> \o IntStr(Len(Dumps(doc))) \o CRLF
               \o TimeHeader \o CRLF
               \o CRLF \o Dumps(doc),
     doc |-> doc]

OddFrames == { NoLengthFrame(JunkDoc), ColonFrame(JunkDoc) }

\* What a server that stops part-way leaves on the wire: nothing, a piece of
\* a header line, or a header block and a piece of the body it declares.
PartialHeader == <<"C", "o", "n", "t", "e", "n", "t", "-", "L", "e">>
PartialBody ==
    _CONTENT_LENGTH \o <<":", " ", "9">> \o CRLF \o CRLF \o <<"{", "\"", "i", "d", "\"">>
Truncations == { <<>>, PartialHeader, PartialBody }

RECURSIVE SeqsOfLen(_, _)
SeqsOfLen(S, n) ==
    IF n = 0 THEN { <<>> }
    ELSE { Append(s, x) : s \in SeqsOfLen(S, n - 1), x \in S }

SeqsUpTo(S, n) == UNION { SeqsOfLen(S, k) : k \in 0..n }

Commands == { _sbt_command(h.entry, h.args, h.files) : h \in Hooks }

EchoFrames == { EchoFrame(i, c) : i \in TaskIds, c \in Commands }

\* A script is the framed messages a server sends, in order, and what
\* follows the last of them.  An odd header block comes last: nothing is
\* read after it.
NoScript == [frames |-> <<>>, tail |-> <<>>]

Scripts ==
    { [frames |-> s, tail |-> t] :
        s \in SeqsUpTo(GoodFrames, MaxMsgs), t \in Truncations }
    \cup { [frames |-> Append(s, e), tail |-> <<>>] :
        s \in SeqsUpTo(GoodFrames, MaxMsgs), e \in EndFrames }
    \cup { [frames |-> Append(s, f), tail |-> <<>>] :
        s \in SeqsUpTo(GoodFrames, MaxMsgs - 1), f \in OddFrames }
    \cup { [frames |-> <<n, g>>, tail |-> <<>>] :
        n \in NotificationFrames, g \in GoodFrames }
    \cup { [frames |-> <<f>>, tail |-> <<>>] : f \in EchoFrames }
    \cup { [frames |-> <<p[1], p[2]>>, tail |-> <<>>] :
        p \in { q \in EchoFrames \X EchoFrames :
                   /\ GetKey(q[1].doc, KeyId) # GetKey(q[2].doc, KeyId)
                   /\ GetKey(q[1].doc, KeyParams) # GetKey(q[2].doc, KeyParams) } }

RECURSIVE FrameBytes(_)
FrameBytes(frames) ==
    IF frames = <<>> THEN <<>> ELSE Head(frames).bytes \o FrameBytes(Tail(frames))

WireOf(sc) == FrameBytes(sc.frames) \o sc.tail

\* The sizes of the next piece of data the transport delivers.
ChunkSizes(pending) == {1, Len(pending)}

(***************************************************************************)
(* The descriptor file of a server listening on a socket path.             *)
(***************************************************************************)
SocketPaths == { <<"/", "s", "1">>, <<"/", "s", "2">> }

DescriptorFor(path) ==
    <<"{", "\"", "u", "r", "i", "\"", ":", "\"", "u", "n", "i", "x", ":", "/", "/">>
    \o path \o <<"\"", "}">>

NoFile == [exists |-> FALSE, content |-> <<>>]
FileWith(content) == [exists |-> TRUE, content |-> content]

(***************************************************************************)
(* State.                                                                  *)
(***************************************************************************)
VARIABLES
    descriptor,     \* project/target/active.json: absent, or its content
    listening,      \* the socket paths a server accepts connections on
    pc,             \* where the dispatch is
    hook,           \* run_hook's hook (entry, args) and file_args
    transport,      \* the transport run_hook chose
    shell_cmd,      \* the command handed to helpers.run_xargs
    socket_file,    \* the path connection_details returned
    sock,           \* the socket of connect_to_sbt_server
    connects,       \* calls of socket.connect in this dispatch
    previous,       \* the socket path the dispatch before this one read,
                    \* remembered until this dispatch has its connection
    timeout,        \* run_via_lsp's timeout
    deadline,       \* the timer of asyncio.wait_for
    task_id,        \* run_via_lsp's task_id
    sent,           \* bytes written to the socket, not yet taken by the server
    writes,         \* calls of writer.write in this dispatch
    script,         \* what the server answers in this exchange
    wire,           \* bytes of the answer not yet delivered to the reader
    buf,            \* the StreamReader's buffer
    eof,            \* whether feed_eof has been called on the StreamReader
    headers,        \* _read_headers' headers
    line,           \* _read_headers' line
    content_length, \* get_next_message's content_length
    transcript,     \* read_until_complete_message's buffer
    msgs,           \* the messages _message_iterator has yielded
    result          \* what run_hook returned or raised

vars == <<descriptor, listening, pc, hook, transport, shell_cmd, socket_file,
          sock, connects, previous, timeout, deadline, task_id, sent, writes,
          script, wire, buf, eof, headers, line, content_length, transcript,
          msgs, result>>

envVars == <<descriptor, listening>>
serverVars == <<script, wire>>
streamVars == <<buf, eof>>
readerVars == <<headers, line, content_length, transcript, msgs>>
callVars == <<hook, transport, shell_cmd, socket_file, connects, previous,
              timeout, task_id, sent, writes>>

NoResult == [kind |-> "none", exc |-> "", rc |-> JInt(0), out |-> <<>>]
Returned(rc, out) == [kind |-> "return", exc |-> "", rc |-> rc, out |-> out]
ReturnedOnError(exc) == [kind |-> "return", exc |-> exc, rc |-> JInt(1), out |-> transcript]
Raised(exc) == [kind |-> "raise", exc |-> exc, rc |-> JInt(0), out |-> <<>>]

ReaderPcs == {"at_eof", "readline", "checkline", "readbody"}

Init ==
    /\ descriptor = NoFile
    /\ listening = {}
    /\ pc = "idle"
    /\ hook = NoHook
    /\ transport = "none"
    /\ shell_cmd = <<>>
    /\ socket_file = <<>>
    /\ sock = "none"
    /\ connects = 0
    /\ previous = <<>>
    /\ timeout = 0
    /\ deadline = "none"
    /\ task_id = 0
    /\ sent = <<>>
    /\ writes = 0
    /\ script = NoScript
    /\ wire = <<>>
    /\ buf = <<>>
    /\ eof = FALSE
    /\ headers = <<>>
    /\ line = <<>>
    /\ content_length = 0
    /\ transcript = <<>>
    /\ msgs = <<>>
    /\ result = NoResult

(***************************************************************************)
(* The environment: an sbt server starts, stops, or dies leaving its       *)
(* descriptor file behind.  It changes between dispatches.                 *)
(***************************************************************************)
ServerStarts ==
    /\ pc = "idle"
    /\ ~descriptor.exists
    /\ \E path \in SocketPaths :
          /\ descriptor' = FileWith(DescriptorFor(path))
          /\ listening' = {path}
    /\ UNCHANGED <<pc, sock, deadline, result>>
    /\ UNCHANGED <<callVars, serverVars, streamVars, readerVars>>

ServerStops ==
    /\ pc = "idle"
    /\ descriptor.exists
    /\ listening # {}
    /\ descriptor' = NoFile
    /\ listening' = {}
    /\ UNCHANGED <<pc, sock, deadline, result>>
    /\ UNCHANGED <<callVars, serverVars, streamVars, readerVars>>

ServerDies ==
    /\ pc = "idle"
    /\ listening # {}
    /\ listening' = {}
    /\ UNCHANGED <<descriptor, pc, sock, deadline, result>>
    /\ UNCHANGED <<callVars, serverVars, streamVars, readerVars>>

StaleFileRemoved ==
    /\ pc = "idle"
    /\ descriptor.exists
    /\ listening = {}
    /\ descriptor' = NoFile
    /\ UNCHANGED <<listening, pc, sock, deadline, result>>
    /\ UNCHANGED <<callVars, serverVars, streamVars, readerVars>>

(***************************************************************************)
(* run_hook and the two transports.                                        *)
(***************************************************************************)
\* port_file_path(root_dir).exists()
is_server_running(file) == file.exists

\* The branch run_hook takes.
ChooseInverted(running) == IF running THEN "commandline" ELSE "lsp"
ChooseTransport(running) == IF running THEN "lsp" ELSE "commandline"

\* Leaving the with block of run_sbt_hook_via_lsp closes the socket it
\* entered, however the block is left.
CloseOnReturnOnly(s, res) == IF s = "open" /\ res.kind = "return" THEN "closed" ELSE s
CloseOnExit(s, res) == IF s = "open" THEN "closed" ELSE s

\* open(port_file_path(Path('.'))): the descriptor file as it is when the
\* dispatch opens it.
PortFileOfEarlierDispatch ==
    IF previous # <<>> THEN FileWith(DescriptorFor(previous)) ELSE descriptor
port_file == descriptor

\* socket.socket(AF_UNIX, SOCK_STREAM) and connect(str(socket_file)): the
\* connected socket, or the error of a path nothing listens on.
ConnectUnchecked(path, accepting) == [exc |-> "", sock |-> "open"]
connect_to_sbt_server(path, accepting) ==
    IF path \in accepting
    THEN [exc |-> "", sock |-> "open"]
    ELSE [exc |-> "ConnectionError", sock |-> "unconnected"]

\* The dispatch ends: run_hook returns res or raises it.
EndCall(res) ==
    /\ result' = res
    /\ pc' = "done"
    /\ sock' = CloseOnExit(sock, res)

RunHook ==
    /\ pc = "idle"
    /\ \E h \in Hooks : hook' = h
    /\ transport' = ChooseTransport(is_server_running(descriptor))
    /\ pc' = IF transport' = "lsp" THEN "open" ELSE "commandline"
    /\ UNCHANGED <<shell_cmd, socket_file, timeout, task_id, sent, writes>>
    /\ UNCHANGED <<connects, previous>>
    /\ UNCHANGED <<sock, deadline, result>>
    /\ UNCHANGED <<envVars, serverVars, streamVars, readerVars>>

\* run_sbt_hook_via_commandline: helpers.run_xargs runs sbt and returns its
\* exit code and output, which are not the model's to decide.
RunCommandline ==
    /\ pc = "commandline"
    /\ shell_cmd' = _sbt_command(hook.entry, hook.args, hook.files)
    /\ \E rc \in {0, 1} : EndCall(Returned(JInt(rc), <<"o", "u", "t", "\n">>))
    /\ hook' = NoHook
    /\ UNCHANGED <<transport, socket_file, timeout, task_id, sent, writes>>
    /\ UNCHANGED <<connects, previous, deadline>>
    /\ UNCHANGED <<envVars, serverVars, streamVars, readerVars>>

\* run_sbt_hook_via_lsp, the first context manager and the argument of the
\* second: open the port file and read the socket path from it.
OpenPortFile ==
    /\ pc = "open"
    /\ IF ~port_file.exists
       THEN /\ EndCall(Raised("FileNotFoundError"))
            /\ UNCHANGED socket_file
       ELSE \E details \in {connection_details(port_file.content)} :
                IF details.exc # ""
                THEN /\ EndCall(Raised(details.exc))
                     /\ UNCHANGED socket_file
                ELSE /\ socket_file' = details.path
                     /\ pc' = "connect"
                     /\ UNCHANGED <<sock, result>>
    /\ UNCHANGED <<hook, transport, shell_cmd, timeout, task_id, sent, writes>>
    /\ UNCHANGED <<connects, previous, deadline>>
    /\ UNCHANGED <<envVars, serverVars, streamVars, readerVars>>

\* connect_to_sbt_server: one socket, one connect.  A connect that fails
\* raises before the with block is entered, so nothing closes the socket;
\* it is not connected.
Connect ==
    /\ pc = "connect"
    /\ connects' = connects + 1
    /\ \E conn \in {connect_to_sbt_server(socket_file, listening)} :
          /\ sock' = conn.sock
          /\ IF conn.exc = ""
             THEN /\ pc' = "run"
                  /\ UNCHANGED result
             ELSE /\ pc' = "done"
                  /\ result' = Raised(conn.exc)
    /\ UNCHANGED <<hook, transport, shell_cmd, socket_file, previous>>
    /\ UNCHANGED <<timeout, task_id, sent, writes, deadline>>
    /\ UNCHANGED <<envVars, serverVars, streamVars, readerVars>>

\* run_via_lsp up to its await of wait_for: the command string, the id,
\* the request written once, the wait started under the timeout.
SendRequest ==
    /\ pc = "run"
    /\ \E id \in TaskIds :
          /\ task_id' = id
          /\ sent' = sent \o create_exec_request(
                                id, _sbt_command(hook.entry, hook.args, hook.files))
    /\ writes' = writes + 1
    /\ timeout' = _LSP_TIMEOUT
    /\ deadline' = "pending"
    /\ hook' = NoHook
    /\ previous' = <<>>
    /\ pc' = "at_eof"
    /\ UNCHANGED <<transport, shell_cmd, socket_file, connects>>
    /\ UNCHANGED <<sock, result>>
    /\ UNCHANGED <<envVars, serverVars, streamVars, readerVars>>

(***************************************************************************)
(* The server's side of the connection and the transport's delivery of     *)
(* its bytes to the StreamReader.                                          *)
(***************************************************************************)
\* StreamReader.at_eof()
at_eof == eof /\ buf = <<>>

\* The reader is suspended in an await: readline without a whole line, or
\* readexactly without the bytes it asked for, and no end of input.
Blocked ==
    \/ pc = "readline" /\ ~LineReady(buf, eof)
    \/ pc = "readbody" /\ content_length >= 0 /\ Len(buf) < content_length /\ ~eof

\* _read_headers can no longer end: at the end of input readline returns an
\* empty line at once, every time, and only "\r\n" breaks the loop.
Spinning ==
    /\ at_eof
    /\ \/ pc = "readline"
       \/ pc = "checkline" /\ line # CRLF

\* The server takes the request off the socket and decides its answer.
ServerTakesRequest ==
    /\ pc \in ReaderPcs
    /\ sent # <<>>
    /\ sent' = <<>>
    /\ \E sc \in Scripts :
          /\ script' = sc
          /\ wire' = WireOf(sc)
    /\ UNCHANGED <<hook, transport, shell_cmd, socket_file, timeout, task_id, writes>>
    /\ UNCHANGED <<connects, previous>>
    /\ UNCHANGED <<pc, sock, deadline, result>>
    /\ UNCHANGED <<envVars, streamVars, readerVars>>

\* feed_data: the next piece of the answer reaches the reader's buffer.  The
\* event loop is single-threaded: it calls the transport's data_received
\* only while the reader is suspended in an await.
Feed ==
    /\ pc \in ReaderPcs
    /\ Blocked
    /\ wire # <<>>
    /\ \E n \in ChunkSizes(wire) :
          /\ buf' = buf \o SubSeq(wire, 1, n)
          /\ wire' = SubSeq(wire, n + 1, Len(wire))
    /\ UNCHANGED <<script, eof>>
    /\ UNCHANGED <<pc, sock, deadline, result>>
    /\ UNCHANGED <<envVars, callVars, readerVars>>

\* feed_eof: the server, having answered, closes the connection.  It may as
\* well keep it open.
FeedEof ==
    /\ pc \in ReaderPcs
    /\ sent = <<>>
    /\ wire = <<>>
    /\ ~eof
    /\ eof' = TRUE
    /\ UNCHANGED <<buf, pc, sock, deadline, result>>
    /\ UNCHANGED <<envVars, callVars, serverVars, readerVars>>

(***************************************************************************)
(* read_until_complete_message, statement by statement.                    *)
(***************************************************************************)
\* StreamReader.readexactly(n) on a buffer that holds n bytes: the bytes
\* returned and the bytes left.
BodyOf(buffer, n) == SubSeq(buffer, 1, n)
AfterBodyAndCrlf(buffer, n) == SubSeq(buffer, n + 3, Len(buffer))
AfterBody(buffer, n) == SubSeq(buffer, n + 1, Len(buffer))

\* What read_until_complete_message writes to its buffer for a message.
RawLine(message, body) == body \o LF
TranscriptLine(message, body) == Dumps(message) \o LF

\* Whether the loop of read_until_complete_message returns on a message.
StopsAtEnd(message, task) == FALSE
Stops(message, task) == is_completion_message(message, task)

\* _message_iterator: while not reader.at_eof(); falling out of the loop
\* raises ValueError('Completion message not found').
CheckAtEof ==
    /\ pc = "at_eof"
    /\ IF at_eof
       THEN /\ EndCall(Raised("CompletionNotFound"))
            /\ UNCHANGED headers
       ELSE /\ pc' = "readline"
            /\ headers' = <<>>
            /\ UNCHANGED <<sock, result>>
    /\ UNCHANGED <<line, content_length, transcript, msgs, deadline>>
    /\ UNCHANGED <<envVars, callVars, serverVars, streamVars>>

\* _read_headers: line = (await reader.readline()).decode('UTF-8')
ReadLine ==
    /\ pc = "readline"
    /\ LineReady(buf, eof)
    /\ line' = LineOf(buf)
    /\ buf' = AfterLine(buf)
    /\ pc' = "checkline"
    /\ UNCHANGED <<eof, headers, content_length, transcript, msgs>>
    /\ UNCHANGED <<sock, deadline, result>>
    /\ UNCHANGED <<envVars, callVars, serverVars>>

\* _read_headers: break on '\r\n', else keep the line; after the break,
\* get_next_message parses the block and looks up Content-Length.
CheckLine ==
    /\ pc = "checkline"
    /\ IF line = CRLF
       THEN /\ UNCHANGED headers
            /\ \E parsed \in {_parse_headers(headers)} :
                   IF ~parsed.ok
                   THEN /\ EndCall(Raised("ValueError"))
                        /\ UNCHANGED content_length
                   ELSE \E length \in {HeaderLookup(parsed.dict, _CONTENT_LENGTH)} :
                        IF length.exc # ""
                        THEN /\ EndCall(Raised(length.exc))
                             /\ UNCHANGED content_length
                        ELSE /\ content_length' = length.val.v
                             /\ pc' = "readbody"
                             /\ UNCHANGED <<sock, result>>
       ELSE /\ headers' = IF Len(headers) < MaxHeaders
                          THEN Append(headers, line)
                          ELSE headers
            /\ pc' = "readline"
            /\ UNCHANGED <<content_length, sock, result>>
    /\ UNCHANGED <<line, transcript, msgs, deadline>>
    /\ UNCHANGED <<envVars, callVars, serverVars, streamVars>>

\* _read_body and _parse_body, then the body of the loop of
\* read_until_complete_message on the message yielded.
ReadBody ==
    /\ pc = "readbody"
    /\ ~Blocked
    /\ IF content_length < 0
       THEN /\ EndCall(Raised("ValueError"))
            /\ UNCHANGED <<buf, transcript, msgs>>
       ELSE IF Len(buf) < content_length
       THEN /\ EndCall(Raised("IncompleteReadError"))
            /\ buf' = <<>>
            /\ UNCHANGED <<transcript, msgs>>
       ELSE \E content \in {BodyOf(buf, content_length)} :
            \E body \in {Loads(content)} :
            \E message \in {body.val} :
            \E written \in {transcript \o TranscriptLine(message, content)} :
                /\ buf' = AfterBody(buf, content_length)
                /\ IF ~body.ok
                   THEN /\ EndCall(Raised("JSONDecodeError"))
                        /\ UNCHANGED <<transcript, msgs>>
                   ELSE /\ transcript' = written
                        /\ msgs' = Append(msgs, message)
                        /\ IF ~IsObj(message)
                           THEN EndCall(Raised("AttributeError"))
                           ELSE IF Stops(message, task_id)
                           THEN LET code == return_code(message)
                                IN  IF code.exc # ""
                                    THEN EndCall(Raised(code.exc))
                                    ELSE EndCall(Returned(code.val, written))
                           ELSE /\ pc' = "at_eof"
                                /\ UNCHANGED <<sock, result>>
    /\ UNCHANGED <<eof, headers, line, content_length, deadline>>
    /\ UNCHANGED <<envVars, callVars, serverVars>>

(***************************************************************************)
(* asyncio.wait_for.  The event loop runs the timer's callback only when   *)
(* the reader is suspended; a stretch of code that ends takes no time.     *)
(***************************************************************************)
\* The deadline is reached while the reader waits for data: the wait is
\* cancelled, which unwinds the reader's frames and drops what was buffered
\* and what was still on its way, and run_via_lsp raises TimeoutError.
TimeoutWhileSuspended ==
    /\ pc \in ReaderPcs
    /\ deadline = "pending"
    /\ Blocked
    /\ deadline' = "expired"
    /\ EndCall(Raised("TimeoutError"))
    /\ wire' = <<>>
    /\ buf' = <<>>
    /\ headers' = <<>>
    /\ line' = <<>>
    /\ content_length' = 0
    /\ UNCHANGED <<script, eof, transcript, msgs>>
    /\ UNCHANGED <<envVars, callVars>>

\* The deadline is reached while _read_headers loops without awaiting: the
\* event loop never gets to run the timer's callback.
DeadlinePasses ==
    /\ pc \in ReaderPcs
    /\ deadline = "pending"
    /\ Spinning
    /\ deadline' = "expired"
    /\ UNCHANGED <<pc, sock, result>>
    /\ UNCHANGED <<envVars, callVars, serverVars, streamVars, readerVars>>

(***************************************************************************)
(* The caller has the outcome; nothing of the dispatch is kept for the     *)
(* next one.                                                               *)
(***************************************************************************)
Finish ==
    /\ pc = "done"
    /\ pc' = "idle"
    /\ hook' = NoHook
    /\ transport' = "none"
    /\ shell_cmd' = <<>>
    /\ socket_file' = <<>>
    /\ sock' = "none"
    /\ connects' = 0
    /\ previous' = IF socket_file # <<>> THEN socket_file ELSE previous
    /\ timeout' = 0
    /\ deadline' = "none"
    /\ task_id' = 0
    /\ sent' = <<>>
    /\ writes' = 0
    /\ script' = NoScript
    /\ wire' = <<>>
    /\ buf' = <<>>
    /\ eof' = FALSE
    /\ headers' = <<>>
    /\ line' = <<>>
    /\ content_length' = 0
    /\ transcript' = <<>>
    /\ msgs' = <<>>
    /\ result' = NoResult
    /\ UNCHANGED envVars

Env == ServerStarts \/ ServerStops \/ ServerDies \/ StaleFileRemoved
Dispatcher == RunHook \/ RunCommandline \/ OpenPortFile \/ Connect \/ SendRequest \/ Finish
Server == ServerTakesRequest \/ Feed \/ FeedEof
Reader == CheckAtEof \/ ReadLine \/ CheckLine \/ ReadBody
Timer == TimeoutWhileSuspended \/ DeadlinePasses

Next ==
    \/ ServerStarts
    \/ ServerStops
    \/ ServerDies
    \/ StaleFileRemoved
    \/ RunHook
    \/ RunCommandline
    \/ OpenPortFile
    \/ Connect
    \/ SendRequest
    \/ Finish
    \/ ServerTakesRequest
    \/ Feed
    \/ FeedEof
    \/ CheckAtEof
    \/ ReadLine
    \/ CheckLine
    \/ ReadBody
    \/ TimeoutWhileSuspended
    \/ DeadlinePasses

Spec == Init /\ [][Next]_vars

\* The event loop runs a coroutine that can run and a timer that is due;
\* the transport delivers what the server has sent.
FairSpec ==
    /\ Spec
    /\ WF_vars(Dispatcher)
    /\ WF_vars(Reader)
    /\ WF_vars(Timer)
    /\ WF_vars(ServerTakesRequest \/ Feed)

(***************************************************************************)
(* What the claims speak of.                                               *)
(***************************************************************************)
\* The documents of the first n framed messages the server sends.
DocsSent(n) == [i \in 1..n |-> script.frames[i].doc]

\* The index of the first message sent whose id is the request's, or 0.
HasId(doc, id) == HasKey(doc, KeyId) /\ GetKey(doc, KeyId) = JInt(id)

FirstMatch ==
    IF \E i \in 1..Len(script.frames) : HasId(script.frames[i].doc, task_id)
    THEN CHOOSE i \in 1..Len(script.frames) :
            /\ HasId(script.frames[i].doc, task_id)
            /\ \A j \in 1..(i - 1) : ~HasId(script.frames[j].doc, task_id)
    ELSE 0

\* Each document serialized on a line of its own.
RECURSIVE Lines(_)
Lines(docs) ==
    IF docs = <<>> THEN <<>> ELSE Dumps(Head(docs)) \o LF \o Lines(Tail(docs))

\* What the server sends after its first n messages.
BytesAfter(n) ==
    FrameBytes(SubSeq(script.frames, n + 1, Len(script.frames))) \o script.tail

\* What the reader has not consumed: buffered, or still on its way.
Unconsumed == buf \o wire

CountOf(s, c) == Cardinality({i \in 1..Len(s) : s[i] = c})

EndsWith(s, t) ==
    Len(s) >= Len(t) /\ SubSeq(s, Len(s) - Len(t) + 1, Len(s)) = t

InWait == pc \in ReaderPcs
Ended == pc = "done"
TimedOut == result.exc = "TimeoutError"

(***************************************************************************)
(* C1.  N messages that do not carry the request's id and then one that    *)
(* does: the wait returns having read exactly those N + 1 messages, the    *)
(* transcript is their serializations, one per line, in order, and the     *)
(* exit code is result.exitCode when the completion message has a result,  *)
(* else error.code.  (A wait the deadline ended is C3's.)                  *)
(***************************************************************************)
C1_ExpectedCode(doc) ==
    IF HasKey(doc, KeyResult)
    THEN GetKey(GetKey(doc, KeyResult), KeyExitCode)
    ELSE GetKey(GetKey(doc, KeyError), KeyCode)

C1_ReturnsOnCompletion ==
    LET k == FirstMatch
    IN  (/\ Ended
         /\ ~TimedOut
         /\ k # 0
         /\ \/ HasKey(script.frames[k].doc, KeyResult)
            \/ HasKey(script.frames[k].doc, KeyError))
        => /\ result.kind = "return"
           /\ msgs = DocsSent(k)
           /\ result.out = Lines(DocsSent(k))
           /\ result.rc = C1_ExpectedCode(script.frames[k].doc)

\* Two messages read, the second the completion, with an error branch.
C1_Witness ==
    /\ Ended
    /\ result.kind = "return"
    /\ FirstMatch = 2
    /\ Len(msgs) = 2
    /\ ~HasKey(msgs[2], KeyResult)
    /\ result.rc = GetKey(GetKey(msgs[2], KeyError), KeyCode)

(***************************************************************************)
(* C2 (as claimed).  When the server has sent only well-framed messages    *)
(* without the request's id and has closed the connection, the wait ends   *)
(* by raising 'Completion message not found'.                              *)
(***************************************************************************)
C2_EndOfStreamRaises ==
    (/\ InWait
     /\ eof
     /\ script.tail = <<>>
     /\ FirstMatch = 0)
    ~> (Ended /\ result.exc = "CompletionNotFound")

(***************************************************************************)
(* C3 (as claimed).  Once the deadline has passed without a completion     *)
(* message, run_via_lsp ends with TimeoutError.                            *)
(***************************************************************************)
C3_DeadlineEndsWait ==
    (deadline = "expired") ~> (Ended /\ TimedOut /\ result.kind = "raise")

(***************************************************************************)
(* C4.  The request is the Content-Type line, the Content-Length line, a   *)
(* blank line, the JSON body and a closing CRLF.  As claimed, the          *)
(* Content-Length is the length of the body alone; as amended, it is the   *)
(* length of the body and the closing CRLF, all that follows the blank     *)
(* line.                                                                   *)
(***************************************************************************)
C4_Line1 == LineOf(sent)
C4_Line2 == LineOf(AfterLine(sent))
C4_Line3 == LineOf(AfterLine(AfterLine(sent)))
C4_Content == AfterLine(AfterLine(AfterLine(sent)))
C4_Body == SubSeq(C4_Content, 1, Len(C4_Content) - 2)

C4_Layout ==
    /\ C4_Line1 = ContentTypeHeader \o CRLF
    /\ Len(Split(C4_Line2, ":")) = 2
    /\ Split(C4_Line2, ":")[1] = _CONTENT_LENGTH
    /\ IsDigits(Strip(Split(C4_Line2, ":")[2]))
    /\ C4_Line3 = CRLF
    /\ EndsWith(C4_Content, CRLF)
    /\ C4_Body # <<>>
    /\ Head(C4_Body) = "{"
    /\ C4_Body[Len(C4_Body)] = "}"
    /\ Loads(C4_Body).ok
    /\ HasId(Loads(C4_Body).val, task_id)

C4_Declared == IntOf(Strip(Split(C4_Line2, ":")[2]))

C4_LengthIsBodyLength ==
    sent # <<>> => (C4_Layout /\ C4_Declared = Len(C4_Body))

C4_LengthCountsClosingCrlf ==
    sent # <<>> => (C4_Layout /\ C4_Declared = Len(C4_Body) + 2)

\* A request whose command quotes file names, so that the body has escapes.
C4_Witness ==
    /\ sent # <<>>
    /\ writes = 1
    /\ IndexOf(sent, "\\") # 0
    /\ C4_Declared = Len(C4_Content)

(***************************************************************************)
(* C5.  A request fed back to the reader is decoded into a document with   *)
(* the fields it was built from, and two requests back to back into both   *)
(* documents in order, all bytes of each consumed with it.                 *)
(***************************************************************************)
\* The requests of the model's ids and commands, built once.
C5_Requests ==
    { [id |-> i, command |-> c, bytes |-> create_exec_request(i, c)] :
        i \in TaskIds, c \in Commands }

C5_IsRequest(frame, id, command) ==
    [id |-> id, command |-> command, bytes |-> frame.bytes] \in C5_Requests

C5_Fields(doc, id, command) ==
    /\ IsObj(doc)
    /\ Len(doc.v) = 4
    /\ HasKey(doc, KeyJsonrpc) /\ GetKey(doc, KeyJsonrpc) = JStr(Version20)
    /\ HasKey(doc, KeyId) /\ GetKey(doc, KeyId) = JInt(id)
    /\ HasKey(doc, KeyMethod) /\ GetKey(doc, KeyMethod) = JStr(SbtExec)
    /\ HasKey(doc, KeyParams)
    /\ GetKey(doc, KeyParams) = JObj(<< <<KeyCommandLine, JStr(ReloadPrefix \o command)>> >>)

C5_EchoScript ==
    /\ script.frames # <<>>
    /\ \A j \in 1..Len(script.frames) :
          \E id \in TaskIds, c \in Commands : C5_IsRequest(script.frames[j], id, c)

C5_RoundTrip ==
    C5_EchoScript =>
        /\ \A j \in 1..Len(msgs) : \A id \in TaskIds, c \in Commands :
              C5_IsRequest(script.frames[j], id, c) => C5_Fields(msgs[j], id, c)
        /\ (pc = "at_eof" \/ (Ended /\ ~TimedOut)) => Unconsumed = BytesAfter(Len(msgs))
        /\ (Ended /\ ~TimedOut) =>
              Len(msgs) = IF FirstMatch # 0 THEN FirstMatch ELSE Len(script.frames)

\* Both of two requests decoded, the second with quoted file names.
C5_Witness ==
    /\ C5_EchoScript
    /\ Len(script.frames) = 2
    /\ Len(msgs) = 2
    /\ Unconsumed = <<>>
    /\ \E i \in 1..2 :
          IndexOf(GetKey(GetKey(msgs[i], KeyParams), KeyCommandLine).v, "\"") # 0

(***************************************************************************)
(* C6.  The completion message is terminal: when the first message with    *)
(* the request's id has been read the wait has ended, nothing after that   *)
(* message has been consumed, and it is the last line of the transcript.   *)
(***************************************************************************)
C6_CompletionIsTerminal ==
    LET k == FirstMatch
    IN  (k # 0 /\ Len(msgs) >= k)
        => /\ Ended
           /\ Len(msgs) = k
           /\ Unconsumed = BytesAfter(k)
           /\ CountOf(transcript, "\n") = k
           /\ EndsWith(transcript, Dumps(script.frames[k].doc) \o LF)
           /\ result.kind = "return" => result.out = transcript

\* Returned with a second message carrying the request's id left unread.
C6_Witness ==
    /\ Ended
    /\ result.kind = "return"
    /\ FirstMatch # 0
    /\ \E j \in (FirstMatch + 1)..Len(script.frames) :
          HasId(script.frames[j].doc, task_id)
    /\ Unconsumed = BytesAfter(FirstMatch)
    /\ buf # <<>>

(***************************************************************************)
(* C7.  run_hook takes the protocol transport, under the timeout, exactly  *)
(* when the descriptor file exists as the dispatch starts, and the command *)
(* line otherwise; either way what it returns is an exit code and bytes.   *)
(***************************************************************************)
C7_TransportByDescriptor ==
    /\ pc # "idle" => (transport = "lsp" <=> descriptor.exists)
    /\ pc # "idle" => (transport = "commandline" <=> ~descriptor.exists)
    /\ InWait => (transport = "lsp" /\ timeout = _LSP_TIMEOUT /\ deadline # "none")
    /\ transport = "commandline" => (sock = "none" /\ writes = 0 /\ task_id = 0)
    /\ transport = "lsp" => shell_cmd = <<>>
    /\ (Ended /\ transport = "commandline") => (result.kind = "return" /\ shell_cmd # <<>>)
    /\ result.kind = "return" => result.rc.t = "int"

C7_Witness ==
    /\ Ended
    /\ transport = "lsp"
    /\ descriptor.exists
    /\ result.kind = "return"
    /\ result.out # <<>>

(***************************************************************************)
(* C8.  The connection run_sbt_hook_via_lsp opened is closed when the      *)
(* dispatch has ended, whether it returned, timed out or raised; it is     *)
(* open only while run_via_lsp runs.                                       *)
(***************************************************************************)
C8_ConnectionClosed ==
    /\ (Ended \/ pc = "idle") => sock # "open"
    /\ (Ended /\ writes > 0) => sock = "closed"
    /\ sock = "open" => (pc = "run" \/ InWait)

\* Closed after an exception raised while correlating.
C8_Witness ==
    /\ Ended
    /\ sock = "closed"
    /\ result.kind = "raise"
    /\ result.exc \in {"KeyError", "CompletionNotFound", "IncompleteReadError"}

(***************************************************************************)
(* C9.  Successive calls of get_next_message return the bodies of the      *)
(* messages in the order the server wrote them, and each call consumes     *)
(* exactly its message: between calls the stream is at the first byte of   *)
(* the next message.                                                       *)
(***************************************************************************)
C9_MessagesInOrder ==
    /\ Len(msgs) <= Len(script.frames)
    /\ msgs = DocsSent(Len(msgs))
    /\ pc = "at_eof" => Unconsumed = BytesAfter(Len(msgs))

\* Between the second call and the third, with a third message to come.
C9_Witness ==
    /\ pc = "at_eof"
    /\ Len(msgs) = 2
    /\ Len(script.frames) = 3
    /\ msgs[1] # msgs[2]
    /\ buf # <<>>

(***************************************************************************)
(* C10.  A completion message with neither result nor error ends the wait  *)
(* with the KeyError return_code raises; no exit code is returned.         *)
(***************************************************************************)
C10_NoResultNoErrorRaises ==
    LET k == FirstMatch
    IN  (/\ Ended
         /\ ~TimedOut
         /\ k # 0
         /\ ~HasKey(script.frames[k].doc, KeyResult)
         /\ ~HasKey(script.frames[k].doc, KeyError))
        => /\ result.kind = "raise"
           /\ result.exc = "KeyError"
           /\ result.out = <<>>
           /\ Len(msgs) = k

C10_Witness ==
    /\ Ended
    /\ result.exc = "KeyError"
    /\ msgs # <<>>
    /\ msgs[Len(msgs)] = BareDoc
    /\ task_id = 7

(***************************************************************************)
(* C11.  The command string is the entry point, a space, the arguments as  *)
(* they are given with single spaces between them, a space, and the file   *)
(* paths, each between double quotes, with single spaces between them.     *)
(* The command line transport is handed this string, and the protocol      *)
(* transport sends it (after "reload;") as the request's commandLine.      *)
(***************************************************************************)
RECURSIVE C11_Spaced(_)
C11_Spaced(parts) ==
    IF parts = <<>> THEN <<>>
    ELSE IF Len(parts) = 1 THEN parts[1]
    ELSE C11_Spaced(SubSeq(parts, 1, Len(parts) - 1)) \o <<" ">> \o parts[Len(parts)]

C11_Command(h) ==
    h.entry \o <<" ">> \o C11_Spaced(h.args) \o <<" ">>
    \o C11_Spaced([i \in 1..Len(h.files) |-> <<"\"">> \o h.files[i] \o <<"\"">>])

\* The commandLine of the request in the bytes written, or nothing when
\* they are no request.
C11_CommandLineOf(request) ==
    Bind(AfterLine(AfterLine(AfterLine(request))), LAMBDA content :
    Bind(Loads(SubSeq(content, 1, Len(content) - 2)), LAMBDA parsed :
    IF parsed.ok /\ IsObj(parsed.val) /\ HasKey(parsed.val, KeyParams)
    THEN GetKey(GetKey(parsed.val, KeyParams), KeyCommandLine).v
    ELSE <<>>))

C11_SameCommandBothTransports ==
    [][/\ (pc = "commandline" /\ pc' = "done") => shell_cmd' = C11_Command(hook)
       /\ (pc = "run" /\ pc' = "at_eof") =>
              \E request \in {sent'} :
                  C11_CommandLineOf(request) = ReloadPrefix \o C11_Command(hook)]_vars

\* The request for files a and "b c" carries "a" "b c" after the argument.
C11_Witness ==
    /\ sent # <<>>
    /\ C11_CommandLineOf(sent) =
          ReloadPrefix \o <<"c", " ", "-", "q", " ", "\"", "a", "\"", " ", "\"", "b", " ", "c", "\"">>

(***************************************************************************)
(* C12.  A header block that ends without a Content-Length line: the call  *)
(* raises the KeyError of get_next_message with the body of that block     *)
(* unread, no message is yielded for the block or after it, and nothing    *)
(* is returned.                                                            *)
(***************************************************************************)
\* The frames of the model's scripts whose header block is the Content-Type
\* line alone.
C12_Lengthless ==
    { f \in UNION { {sc.frames[i] : i \in 1..Len(sc.frames)} : sc \in Scripts } :
        f.bytes = ContentTypeHeader \o CRLF \o CRLF \o Dumps(f.doc) }

C12_LacksLength(frame) == frame \in C12_Lengthless

C12_MissingLengthIsFatal ==
    \A k \in 1..Len(script.frames) :
        C12_LacksLength(script.frames[k]) =>
            /\ Len(msgs) < k
            /\ (Ended /\ ~TimedOut /\ FirstMatch = 0) =>
                  /\ result.kind = "raise"
                  /\ result.exc = "KeyError"
                  /\ result.out = <<>>
                  /\ msgs = DocsSent(k - 1)
                  /\ Unconsumed = Dumps(script.frames[k].doc) \o BytesAfter(k)

\* One message read, then the block without a length: the body is left.
C12_Witness ==
    /\ Ended
    /\ result.exc = "KeyError"
    /\ Len(script.frames) = 2
    /\ C12_LacksLength(script.frames[2])
    /\ Len(msgs) = 1
    /\ headers = <<ContentTypeHeader \o CRLF>>
    /\ Unconsumed = Dumps(JunkDoc)

(***************************************************************************)
(* C13.  Throughout the wait the transcript is the serialization, one per  *)
(* line and in arrival order, of exactly the messages read so far; the     *)
(* call returns only on a message whose id is the request's; a message     *)
(* without an id or with another id is appended and the wait goes on,      *)
(* also when it carries a result or an error.                              *)
(***************************************************************************)
C13_TranscriptAndCompletion ==
    /\ (InWait \/ Ended) => transcript = Lines(msgs)
    /\ \A i \in 1..(Len(msgs) - 1) : ~HasId(msgs[i], task_id)
    /\ (result.kind = "return" /\ transport = "lsp") =>
          /\ msgs # <<>>
          /\ HasId(msgs[Len(msgs)], task_id)
          /\ result.out = transcript
    /\ (InWait /\ msgs # <<>>) => ~HasId(msgs[Len(msgs)], task_id)

\* A result without an id and a result with another id, both read and on
\* the transcript, and the wait going on.
C13_Witness ==
    /\ pc = "at_eof"
    /\ task_id = 7
    /\ msgs = <<NoIdResultDoc, ResultDoc(8, 3)>>
    /\ transcript = Dumps(NoIdResultDoc) \o LF \o Dumps(ResultDoc(8, 3)) \o LF

(***************************************************************************)
(* C14.  A call of run_via_lsp writes once: one request, before anything   *)
(* is read, and nothing after it.  The id is drawn once, from              *)
(* _MIN_ID.._MAX_ID; the request written carries it, and it stays the id   *)
(* of the call until the call is over.                                     *)
(***************************************************************************)
\* The document of the one request the bytes are, or a failure when they
\* are anything else.
C14_RequestIn(bytes) ==
    Bind(AfterLine(AfterLine(AfterLine(bytes))), LAMBDA content :
    IF LineOf(AfterLine(AfterLine(bytes))) # CRLF \/ ~EndsWith(content, CRLF)
    THEN ParseFail
    ELSE Loads(SubSeq(content, 1, Len(content) - 2)))

C14_TheWrite ==
    /\ pc = "run"
    /\ writes = 0 /\ writes' = 1
    /\ task_id = 0
    /\ task_id' \in _MIN_ID.._MAX_ID
    /\ sent = <<>>
    /\ buf = <<>> /\ msgs = <<>> /\ transcript = <<>>
    /\ \E request \in {C14_RequestIn(sent')} :
          request.ok /\ HasId(request.val, task_id')

C14_OneRequestOneId ==
    [][/\ (writes' # writes \/ sent' \notin {sent, <<>>}) =>
              (C14_TheWrite \/ (pc = "done" /\ writes' = 0 /\ sent' = <<>>))
       /\ task_id' # task_id =>
              (C14_TheWrite \/ (pc = "done" /\ task_id' = 0))
       /\ (pc' \in ReaderPcs) => (writes' = 1 /\ task_id' \in _MIN_ID.._MAX_ID)
       /\ (buf' # buf \/ msgs' # msgs) => (pc = "done" \/ writes = 1)]_vars

\* Two messages read and the call returned on the second, one write made.
C14_Witness ==
    /\ Ended
    /\ result.kind = "return"
    /\ writes = 1
    /\ task_id = 8
    /\ Len(msgs) = 2
    /\ HasId(msgs[2], 8)

(***************************************************************************)
(* C15.  Every dispatch reads the descriptor file anew: the path it        *)
(* connects to is the one the file names during that dispatch, whatever    *)
(* path an earlier dispatch read, and no path is kept from one dispatch to *)
(* the next.                                                               *)
(***************************************************************************)
C15_ConnectsToPathNamedNow ==
    /\ pc \in {"idle", "open", "commandline"} => (socket_file = <<>> /\ sock = "none")
    /\ socket_file # <<>> =>
          /\ descriptor.exists
          /\ descriptor.content = DescriptorFor(socket_file)
    /\ connects > 0 => socket_file # <<>>
    /\ sock \in {"open", "closed"} => socket_file \in listening

\* Connected to the path of a restarted server, the dispatch before having
\* read another path.
C15_Witness ==
    /\ pc = "run"
    /\ sock = "open"
    /\ previous # <<>>
    /\ previous # socket_file
    /\ listening = {socket_file}

(***************************************************************************)
(* C16.  The descriptor file is there and nothing listens on the path it   *)
(* names: the dispatch ends with the error of the one connect it made, no  *)
(* request written and the command line not run.  No dispatch uses both    *)
(* transports.                                                             *)
(***************************************************************************)
C16_ConnectFailureSurfaces ==
    /\ connects <= 1
    /\ (connects = 1 /\ socket_file \notin listening) =>
          /\ Ended
          /\ result.kind = "raise"
          /\ result.exc = "ConnectionError"
          /\ transport = "lsp"
          /\ sock = "unconnected"
          /\ writes = 0 /\ sent = <<>> /\ task_id = 0
          /\ shell_cmd = <<>>
    /\ transport = "lsp" => shell_cmd = <<>>
    /\ transport = "commandline" => (connects = 0 /\ writes = 0)
    /\ (connects > 0 \/ writes > 0) => transport = "lsp"
    /\ shell_cmd # <<>> => transport = "commandline"

\* A server that died and left its descriptor file behind.
C16_Witness ==
    /\ Ended
    /\ descriptor.exists
    /\ listening = {}
    /\ connects = 1
    /\ result.exc = "ConnectionError"
    /\ writes = 0

(***************************************************************************)
(* C17 (as claimed).  A header line is split on its first colon only: the  *)
(* key is what precedes it and the value is the rest, trimmed (an integer  *)
(* for Content-Length), also when the rest has colons of its own; and a    *)
(* header block of such lines with a valid Content-Length goes on to its   *)
(* body.                                                                   *)
(***************************************************************************)
C17_Key(header) == SubSeq(header, 1, IndexOf(header, ":") - 1)
C17_Rest(header) == Strip(SubSeq(header, IndexOf(header, ":") + 1, Len(header)))

C17_SplitOnFirstColon(header) ==
    Bind(_parse_header(header), LAMBDA parsed :
        /\ parsed.ok
        /\ parsed.key = C17_Key(header)
        /\ parsed.val = IF C17_Key(header) = _CONTENT_LENGTH
                        THEN JInt(IntOf(C17_Rest(header)))
                        ELSE JStr(C17_Rest(header)))

C17_WellFormed(header) ==
    /\ IndexOf(header, ":") # 0
    /\ C17_Key(header) = _CONTENT_LENGTH => IsIntLiteral(C17_Rest(header))

C17_HeaderLinesSplitOnFirstColon ==
    /\ \A i \in 1..Len(headers) :
          C17_WellFormed(headers[i]) => C17_SplitOnFirstColon(headers[i])
    /\ (/\ Ended
        /\ line = CRLF
        /\ \A i \in 1..Len(headers) : C17_WellFormed(headers[i])
        /\ \E i \in 1..Len(headers) : C17_Key(headers[i]) = _CONTENT_LENGTH)
       => result.exc # "ValueError"

(***************************************************************************)
(* C18.  What the call returns or raises is decided by the bytes the       *)
(* server sends, not by the pieces they arrive in: it is what the reader   *)
(* makes of the whole sequence when all of it is in the buffer at once.    *)
(***************************************************************************)
\* The reader never ends: it is in _read_headers at the end of the input.
C18_Hang == [kind |-> "hang", exc |-> "", rc |-> JInt(0), out |-> <<>>]

\* _read_headers on a buffer that holds all there is to come.
RECURSIVE C18_Headers(_, _)
C18_Headers(buffer, acc) ==
    IF buffer = <<>> THEN [ok |-> FALSE, headers |-> acc, rest |-> <<>>]
    ELSE Bind(LineOf(buffer), LAMBDA l :
         IF l = CRLF THEN [ok |-> TRUE, headers |-> acc, rest |-> AfterLine(buffer)]
         ELSE C18_Headers(AfterLine(buffer), Append(acc, l)))

\* read_until_complete_message on such a buffer, written being the
\* transcript so far.
RECURSIVE C18_Whole(_, _, _)
C18_Whole(buffer, task, written) ==
    IF buffer = <<>> THEN Raised("CompletionNotFound")
    ELSE Bind(C18_Headers(buffer, <<>>), LAMBDA block :
    IF ~block.ok THEN C18_Hang
    ELSE Bind(_parse_headers(block.headers), LAMBDA parsed :
    IF ~parsed.ok THEN Raised("ValueError")
    ELSE IF ~HasKey(parsed.dict, _CONTENT_LENGTH) THEN Raised("KeyError")
    ELSE Bind(GetKey(parsed.dict, _CONTENT_LENGTH).v, LAMBDA n :
    IF n < 0 THEN Raised("ValueError")
    ELSE IF Len(block.rest) < n THEN Raised("IncompleteReadError")
    ELSE Bind(Loads(SubSeq(block.rest, 1, n)), LAMBDA body :
    IF ~body.ok THEN Raised("JSONDecodeError")
    ELSE Bind(written \o Dumps(body.val) \o LF, LAMBDA out :
    IF ~IsObj(body.val) THEN Raised("AttributeError")
    ELSE IF HasId(body.val, task)
         THEN Bind(return_code(body.val), LAMBDA code :
              IF code.exc # "" THEN Raised(code.exc)
              ELSE Returned(code.val, out))
    ELSE C18_Whole(SubSeq(block.rest, n + 1, Len(block.rest)), task, out))))))

C18_OutcomeOfBytesAlone ==
    (Ended /\ ~TimedOut /\ writes = 1) =>
        result = C18_Whole(WireOf(script), task_id, <<>>)

\* Returned on the second message, every byte of both having arrived alone:
\* what follows them has not been delivered.
C18_Witness ==
    /\ Ended
    /\ result.kind = "return"
    /\ Len(msgs) = 2
    /\ buf = <<>>
    /\ wire # <<>>
    /\ wire = BytesAfter(2)

(***************************************************************************)
(* C19.  The protocol transport returns an exit code and a transcript only *)
(* when the wait has completed: the last message read carries the          *)
(* request's id and an exit code.  However else the wait ends (timeout,    *)
(* no completion message, a bad header block, a truncated body, a          *)
(* completion message without result and error) the caller gets an         *)
(* exception, and with it neither an exit code nor any of the transcript.  *)
(***************************************************************************)
C19_HasCode(doc) ==
    IF HasKey(doc, KeyResult)
    THEN IsObj(GetKey(doc, KeyResult)) /\ HasKey(GetKey(doc, KeyResult), KeyExitCode)
    ELSE /\ HasKey(doc, KeyError)
         /\ IsObj(GetKey(doc, KeyError)) /\ HasKey(GetKey(doc, KeyError), KeyCode)

C19_Completed ==
    /\ msgs # <<>>
    /\ HasId(msgs[Len(msgs)], task_id)
    /\ C19_HasCode(msgs[Len(msgs)])

C19_ReturnsOnlyWhenCompleted ==
    (Ended /\ transport = "lsp") =>
        /\ result.kind \in {"return", "raise"}
        /\ result.kind = "return" <=> C19_Completed
        /\ result.kind = "return" => result.out = Lines(msgs)
        /\ result.kind = "raise" =>
              /\ result.exc # ""
              /\ result.out = <<>>
              /\ result.rc = JInt(0)

\* The timeout after a message has been read and written to the buffer.
C19_Witness ==
    /\ Ended
    /\ TimedOut
    /\ result.kind = "raise"
    /\ msgs # <<>>
    /\ transcript # <<>>
    /\ result.out = <<>>

=============================================================================
